---- MODULE Spec2Model ----
(***************************************************************************)
(* PyHttpFs: the FUSE bridge HttpFs (src/pyhttpfs/pyhttpfs.py) over the    *)
(* File tree nodes of src/pyhttpfs/types.py.                               *)
(*                                                                         *)
(* The Python object graph is kept as it is built: File objects live in    *)
(* `objs` (an object is its index), the Python lists held in a File's      *)
(* 'children' slot live in `lists` (two File objects built by from_json    *)
(* from the same JSON record hold the same list), and                      *)
(* _inode_to_file_map maps inode numbers to objects.  Callbacks are        *)
(* coroutines of one trio task stream: a callback runs atomically up to    *)
(* its next await of network I/O, where it is parked in `tasks`.           *)
(* Timestamps are left out: no modelled operation branches on them.        *)
(***************************************************************************)
EXTENDS Integers, Sequences, FiniteSets, Bags, TLC

\* ------------------------------------------------------------------ bounds

\* Callbacks that may be suspended in network I/O at the same time.
MaxTasks == 2
\* File handles the dispatcher may hold (opens not yet released).
MaxHeld == 2
\* Descriptor numbers the process can hand out to temporary files.
MaxFd == 2
\* Largest offset and length the dispatcher passes to read.
MaxOff == 3
MaxLen == 3
\* Largest reply-buffer capacity (entries) of one readdir call.
MaxCap == 2
\* Largest inode number the dispatcher passes (inodes and readdir offsets).
MaxIno == 5

\* --------------------------------------------------------------- constants

\* pyfuse3.ROOT_INODE
ROOT_INODE == 1
\* Python's None in a 'parent' slot (objects are numbered from 1).
NoParent == 0
\* entry.st_blksize
BlkSize == 512

\* stat.S_IFDIR | S_IREAD | S_IRGRP | S_IROTH, the root's mode
RootMode == 16384 + 256 + 32 + 4
DirMode == 16384 + 493
RegMode == 32768 + 420

\* stat.S_ISDIR(mode): the file-type bits are S_IFDIR
S_ISDIR(mode) == (mode \div 4096) % 16 = 4

\* stat.S_ISREG(mode)
S_ISREG(mode) == (mode \div 4096) % 16 = 8

\* ------------------------------------------------------------ the remote

\* One record of the listing wire format, as FsServer.list_directory
\* serialises a File: 'children' is [], 'parent' null and 'walked' false.
\* `ok` is FALSE for a record File.from_json cannot parse.
Wire(path, dev, inode, mode, nlink, size) ==
    [ok |-> TRUE, st_path |-> path, st_dev |-> dev, st_inode |-> inode,
     st_mode |-> mode, st_nlink |-> nlink, st_uid |-> 1000, st_gid |-> 100,
     st_size |-> size]

\* The served tree.  "/" holds a file with two names (hard links a and l),
\* a file f, a directory d and an empty directory e; d holds a file b on
\* another device and a file c.
Listing(path) ==
    CASE path = "/"   -> << Wire("a", 1, 3, RegMode, 2, 2),
                            Wire("d", 1, 2, DirMode, 2, 4096),
                            Wire("e", 1, 4, DirMode, 2, 4096),
                            Wire("f", 1, 5, RegMode, 1, 1),
                            Wire("l", 1, 3, RegMode, 2, 2) >>
      [] path = "/d"  -> << Wire("b", 3, 1, RegMode, 1, 1),
                            Wire("c", 1, 1, RegMode, 1, 0) >>
      [] path = "/e"  -> << >>
      [] OTHER        -> << >>

IsRemoteDir(path) == path \in {"/", "/d", "/e"}

\* The bytes the content fetch of a path yields.
Content(path) ==
    CASE path = "/a"   -> <<1, 2>>
      [] path = "/l"   -> <<1, 2>>
      [] path = "/f"   -> <<3>>
      [] path = "/d/b" -> <<4>>
      [] OTHER         -> << >>

\* The listing with its k-th record unparseable (k = 0: every record parses).
Corrupt(body, k) ==
    [i \in 1..Len(body) |-> IF i = k THEN [body[i] EXCEPT !.ok = FALSE] ELSE body[i]]

\* What async_get_json(url) can produce for a path: an exception (network
\* error, or a body that is not JSON, as for a path that is no directory),
\* or a list of records of which at most one does not parse.
Responses(path) ==
    {[err |-> TRUE, body |-> << >>]} \cup
    IF IsRemoteDir(path)
    THEN {[err |-> FALSE, body |-> Corrupt(Listing(path), k)] : k \in 0..Len(Listing(path))}
    ELSE {}

\* ------------------------------------------------------------------ state

VARIABLES
    objs,               \* the File objects: Seq of records
    lists,              \* the Python lists in 'children' slots: Seq of Seq of objects
    inode_to_file_map,  \* HttpFs._inode_to_file_map: inode -> object
    inode_to_tmpfile_map, \* HttpFs._inode_to_tmpfile_map: inode -> descriptor of the TemporaryFile
    fd_inode_map,       \* HttpFs._fd_inode_map: descriptor -> inode
    fd_open_count,      \* HttpFs._fd_open_count: descriptor -> count
    files,              \* the process's open temporary files: descriptor -> [data, pos]
    tasks,              \* callbacks suspended in network I/O (a bag)
    held,               \* handles the dispatcher holds: descriptor -> opens not yet released
    ret                 \* the last callback to return: what was called and what it gave

treeVars == <<objs, lists, inode_to_file_map>>
cacheVars == <<inode_to_tmpfile_map, fd_inode_map, fd_open_count>>
vars == <<objs, lists, inode_to_file_map, inode_to_tmpfile_map, fd_inode_map,
          fd_open_count, files, tasks, held, ret>>

\* ---------------------------------------------------------- types.py: File

\* File.__init__ / File.from_json: a fresh File object.  `kids` is the list
\* the 'children' slot refers to.
NewFile(f, parent, kids) ==
    [st_path |-> f.st_path, st_dev |-> f.st_dev, st_inode |-> f.st_inode,
     st_mode |-> f.st_mode, st_nlink |-> f.st_nlink, st_uid |-> f.st_uid,
     st_gid |-> f.st_gid, st_size |-> f.st_size,
     parent |-> parent, children |-> kids, walked |-> FALSE]

\* File.basename: os.path.basename(st_path); the served names hold no '/'.
basename(o) == o.st_path

\* File.l_inode
l_inode(o) == o.st_dev * o.st_inode

\* File.full_path over a heap of objects
RECURSIVE full_path(_, _)
full_path(os, n) ==
    IF os[n].parent = NoParent THEN "/"
    ELSE LET parent == full_path(os, os[n].parent)
         IN (IF parent # "/" THEN parent \o "/" ELSE parent) \o os[n].st_path

\* File.stat and HttpFs._getattr: the attributes handed to the dispatcher
getattr_(o) ==
    [st_ino |-> l_inode(o), st_mode |-> o.st_mode, st_nlink |-> o.st_nlink,
     st_uid |-> o.st_uid, st_gid |-> o.st_gid, st_rdev |-> o.st_dev,
     st_size |-> o.st_size,
     st_blocks |-> (o.st_size + BlkSize - 1) \div BlkSize]

\* File.push_child on a heap h = [objs, lists, map]: mark the parent walked,
\* append the child object to the parent's list.
push_child(h, pobj, c) ==
    [h EXCEPT !.objs[pobj].walked = TRUE,
              !.lists[h.objs[pobj].children] = Append(@, c)]

\* ------------------------------------------------- HttpFs._load_children

\* One round of the loop body for record f: c = File.from_json(f) with parent
\* pobj; a second File.from_json(f), sharing f's 'children' list and keeping
\* f's null parent, is pushed to pobj; c is registered under its l_inode.
LoadOne(h, pobj, f) ==
    LET kids == Len(h.lists) + 1
        c    == Len(h.objs) + 1
        twin == Len(h.objs) + 2
        h1   == [h EXCEPT !.lists = Append(@, << >>),
                          !.objs = @ \o << NewFile(f, pobj, kids),
                                           NewFile(f, NoParent, kids) >>]
        h2   == push_child(h1, pobj, twin)
    IN [h2 EXCEPT !.map = (l_inode(h1.objs[c]) :> c) @@ @]

\* The loop over the response body from record i on: stops with failed = TRUE
\* at the first record from_json raises on, keeping what earlier rounds did.
RECURSIVE LoadFrom(_, _, _, _)
LoadFrom(h, pobj, body, i) ==
    IF i > Len(body) THEN [h |-> h, failed |-> FALSE]
    ELSE IF ~body[i].ok THEN [h |-> h, failed |-> TRUE]
    ELSE LoadFrom(LoadOne(h, pobj, body[i]), pobj, body, i + 1)

\* _load_children after the await: resp is what async_get_json gave.
load_children(h, pobj, resp) ==
    IF resp.err THEN [h |-> h, failed |-> TRUE]
    ELSE LoadFrom(h, pobj, resp.body, 1)

Heap == [objs |-> objs, lists |-> lists, map |-> inode_to_file_map]

\* HttpFs.__init__: the root object, registered under ROOT_INODE, with the
\* root listing loaded (trio.run(self._load_children, self.root)).
RootFile ==
    [st_path |-> "/", st_dev |-> 1, st_inode |-> ROOT_INODE, st_mode |-> RootMode,
     st_nlink |-> 0, st_uid |-> 0, st_gid |-> 0, st_size |-> 4096,
     parent |-> NoParent, children |-> 1, walked |-> FALSE]

InitHeap ==
    load_children([objs |-> <<RootFile>>, lists |-> << << >> >>,
                   map |-> (ROOT_INODE :> 1)],
                  1, [err |-> FALSE, body |-> Listing("/")]).h

\* --------------------------------------------------------------- helpers

Inodes == 0..MaxIno
FD == 1..MaxFd

\* The order of Python's str comparison on the names in play.
NameOrder == <<".", "..", "a", "b", "c", "d", "e", "f", "l", "zz">>
Names == {NameOrder[i] : i \in 1..Len(NameOrder)}
NameRank(n) == CHOOSE i \in 1..Len(NameOrder) : NameOrder[i] = n
\* The names the dispatcher looks up: '.', '..', a name of each directory
\* and a name no directory holds.
LookupNames == {".", "..", "a", "b", "c", "zz"}

Min(a, b) == IF a < b THEN a ELSE b
Max(a, b) == IF a > b THEN a ELSE b

\* d without key k (Python's del d[k])
Del(d, k) == [x \in DOMAIN d \ {k} |-> d[x]]

\* d with d[k] = v
Put(d, k, v) == (k :> v) @@ d

Pending(op) == {t \in BagToSet(tasks) : t.op = op}

\* -------------------------------------------------------------- readdir

\* The (ino, name) order of Python's tuple comparison; the third component,
\* an EntryAttributes object, has no ordering.
EntryLess(x, y) ==
    \/ x.ino < y.ino
    \/ x.ino = y.ino /\ NameRank(x.name) < NameRank(y.name)

RECURSIVE Insert(_, _)
Insert(s, x) ==
    IF s = << >> THEN <<x>>
    ELSE IF EntryLess(x, Head(s)) THEN <<x>> \o s
    ELSE <<Head(s)>> \o Insert(Tail(s), x)

RECURSIVE sorted(_)
sorted(s) == IF s = << >> THEN << >> ELSE Insert(sorted(Tail(s)), Head(s))

\* lines 115-120: one (st_ino, name, attr) per child, '.' and '..' skipped
Entries(h, fobj) ==
    LET kids == h.lists[h.objs[fobj].children]
        keep == SelectSeq(kids, LAMBDA c : basename(h.objs[c]) \notin {".", ".."})
    IN [i \in 1..Len(keep) |->
          [ino |-> getattr_(h.objs[keep[i]]).st_ino,
           name |-> basename(h.objs[keep[i]]), obj |-> keep[i]]]

\* sorted(entries) raises TypeError when two tuples agree on ino and name
Unorderable(es) ==
    \E i, j \in 1..Len(es) : i # j /\ es[i].ino = es[j].ino /\ es[i].name = es[j].name

Delivered_inclusive(es, off, cap) ==
    LET rest == SelectSeq(sorted(es), LAMBDA e : e.ino >= off)
    IN SubSeq(rest, 1, Min(cap, Len(rest)))

\* lines 124-129: in sorted order, entries with ino <= off are skipped and
\* the rest are handed to readdir_reply until it reports the buffer full,
\* which a buffer of cap entries does on entry cap + 1.
Delivered(es, off, cap) ==
    LET rest == SelectSeq(sorted(es), LAMBDA e : e.ino > off)
    IN SubSeq(rest, 1, Min(cap, Len(rest)))

\* readdir from line 113 on, on a heap h: how the callback ends.  What a
\* call that ends "ok" hands to the dispatcher is
\* Delivered(Entries(h, fobj), off, cap): off and the capacity of the reply
\* buffer select from the entries and change no state.
ReaddirReply(h, inode, fobj, fetched) ==
    [op |-> "readdir", inode |-> inode, fobj |-> fobj, fetched |-> fetched,
     status |-> IF Unorderable(Entries(h, fobj)) THEN "TypeError" ELSE "ok"]

\* What the dispatcher calls readdir on: the mount's root, and never another
\* node it knows as no directory.
Readable(inode) ==
    inode \in DOMAIN inode_to_file_map /\ inode # ROOT_INODE
        => S_ISDIR(objs[inode_to_file_map[inode]].st_mode)

\* readdir up to its await: an unknown inode raises KeyError; a walked
\* directory is answered at once; otherwise the callback is parked in the
\* listing fetch of fobj's full path.
readdir(inode) ==
    /\ Readable(inode)
    /\ UNCHANGED <<treeVars, cacheVars, files, held>>
    /\ IF inode \notin DOMAIN inode_to_file_map
       THEN /\ ret' = [op |-> "readdir", inode |-> inode, fobj |-> 0,
                       fetched |-> FALSE, status |-> "KeyError"]
            /\ UNCHANGED tasks
       ELSE LET fobj == inode_to_file_map[inode]
            IN IF objs[fobj].walked
               THEN /\ ret' = ReaddirReply(Heap, inode, fobj, FALSE)
                    /\ UNCHANGED tasks
               ELSE /\ BagCardinality(tasks) < MaxTasks
                    /\ tasks' = tasks (+) SetToBag({[op |-> "readdir", inode |-> inode,
                                                     fobj |-> fobj,
                                                     url |-> full_path(objs, fobj)]})
                    /\ UNCHANGED ret

\* readdir from the return of its fetch: _load_children's loop runs without
\* an await, then the reply is computed from fobj's children.
readdir_resume(t, resp) ==
    LET r == load_children(Heap, t.fobj, resp)
    IN /\ objs' = r.h.objs
       /\ lists' = r.h.lists
       /\ inode_to_file_map' = r.h.map
       /\ tasks' = tasks (-) SetToBag({t})
       /\ ret' = IF r.failed
                 THEN [op |-> "readdir", inode |-> t.inode, fobj |-> t.fobj,
                       fetched |-> TRUE, status |-> "IOError"]
                 ELSE ReaddirReply(r.h, t.inode, t.fobj, TRUE)
       /\ UNCHANGED <<cacheVars, files, held>>

\* ------------------------------------------------------- lookup, getattr

\* HttpFs.getattr: self._inode_to_file_map[inode] raises KeyError
getattr(inode) ==
    IF inode \in DOMAIN inode_to_file_map
    THEN [status |-> "ok", attr |-> getattr_(objs[inode_to_file_map[inode]])]
    ELSE [status |-> "KeyError", attr |-> << >>]

NotFound == [status |-> "ENOENT", attr |-> << >>]

\* The first child of a directory object with the given basename, 0 if none
FindChild(fobj, name) ==
    LET kids == lists[objs[fobj].children]
        hits == {i \in 1..Len(kids) : basename(objs[kids[i]]) = name}
    IN IF hits = {} THEN 0
       ELSE kids[CHOOSE i \in hits : \A j \in hits : i <= j]

\* HttpFs.lookup: only a KeyError inside the try block becomes ENOENT
lookup(inode_p, name) ==
    IF name = "." THEN getattr(inode_p)
    ELSE IF inode_p \notin DOMAIN inode_to_file_map THEN NotFound
    ELSE LET p == inode_to_file_map[inode_p]
         IN IF name = ".."
            THEN IF objs[p].parent = NoParent
                 THEN [status |-> "AttributeError", attr |-> << >>]
                 ELSE getattr(l_inode(objs[objs[p].parent]))
            ELSE IF FindChild(p, name) = 0 THEN NotFound
                 ELSE getattr(l_inode(objs[FindChild(p, name)]))

Lookup_fetch(inode_p, name) ==
    /\ ret' = LET r == lookup(inode_p, name)
              IN [op |-> "lookup", inode |-> inode_p, name |-> name,
                  status |-> r.status, attr |-> r.attr]
    /\ tasks' = IF /\ inode_p \in DOMAIN inode_to_file_map
                   /\ ~objs[inode_to_file_map[inode_p]].walked
                   /\ BagCardinality(tasks) < MaxTasks
                THEN tasks (+) SetToBag({[op |-> "readdir", inode |-> inode_p,
                                          fobj |-> inode_to_file_map[inode_p],
                                          url |-> full_path(objs, inode_to_file_map[inode_p])]})
                ELSE tasks
    /\ UNCHANGED <<treeVars, cacheVars, files, held>>

Lookup(inode_p, name) ==
    /\ ret' = LET r == lookup(inode_p, name)
              IN [op |-> "lookup", inode |-> inode_p, name |-> name,
                  status |-> r.status, attr |-> r.attr]
    /\ UNCHANGED <<treeVars, cacheVars, files, tasks, held>>

Getattr(inode) ==
    /\ ret' = LET r == getattr(inode)
              IN [op |-> "getattr", inode |-> inode, status |-> r.status, attr |-> r.attr]
    /\ UNCHANGED <<treeVars, cacheVars, files, tasks, held>>

\* ---------------------------------------------------- rejected operations

\* unlink, rmdir, symlink, rename, link, setattr, mknod, mkdir, statfs,
\* create, write and readlink: log, then raise FUSEError(EINVAL).
Unsupported ==
    {"unlink", "rmdir", "symlink", "rename", "link", "setattr", "mknod",
     "mkdir", "statfs", "create", "write", "readlink"}

Reject_statfs(op) ==
    /\ ret' = [op |-> op, status |-> IF op = "statfs" THEN "ok" ELSE "EINVAL"]
    /\ UNCHANGED <<treeVars, cacheVars, files, tasks, held>>

Reject(op) ==
    /\ ret' = [op |-> op, status |-> "EINVAL"]
    /\ UNCHANGED <<treeVars, cacheVars, files, tasks, held>>

\* ------------------------------------------------------- open-file cache

\* Opens the dispatcher is owed an answer or a release for.
Outstanding ==
    LET RECURSIVE Sum(_)
        Sum(S) == IF S = {} THEN 0
                  ELSE LET x == CHOOSE y \in S : TRUE IN held[x] + Sum(S \ {x})
    IN Sum(FD) + Cardinality(Pending("open"))

\* line 171: self._fd_open_count[fd.fileno()] += 1
Increment(count, fd) == [count EXCEPT ![fd] = @ + 1]

\* line 203: self._fd_open_count[fd] -= 1
Decrement_skip(count, fd) == count

Decrement(count, fd) == [count EXCEPT ![fd] = @ - 1]

\* The dispatcher's record of a handle returned by open.
Hold(fd) == [held EXCEPT ![fd] = @ + 1]

\* TemporaryFile('w+b'): a descriptor the process does not have open.  Which
\* number it gets depends on the sockets the process has open besides.
FreeFds == FD \ DOMAIN files

\* What the dispatcher calls open on: never a node it knows as a directory
\* (those go to opendir).
Openable(inode) ==
    inode \in DOMAIN inode_to_file_map => ~S_ISDIR(objs[inode_to_file_map[inode]].st_mode)

\* open up to its await.  A cached inode is answered at once, whatever the
\* flags; otherwise the assert on O_CREAT (assertions enabled, as the
\* console script runs), then the node's full path (KeyError for an unknown
\* inode), then a new temporary file, and the callback is parked in the
\* content download.
open(inode, creat) ==
    /\ Openable(inode)
    /\ Outstanding < MaxHeld
    /\ UNCHANGED <<treeVars, inode_to_tmpfile_map, fd_inode_map>>
    /\ IF inode \in DOMAIN inode_to_tmpfile_map
       THEN LET fd == inode_to_tmpfile_map[inode]
            IN IF fd \in DOMAIN fd_open_count
               THEN /\ fd_open_count' = Increment(fd_open_count, fd)
                    /\ held' = Hold(fd)
                    /\ ret' = [op |-> "open", inode |-> inode, creat |-> creat,
                               status |-> "ok", fh |-> fd]
                    /\ UNCHANGED <<files, tasks>>
               ELSE /\ ret' = [op |-> "open", inode |-> inode, creat |-> creat,
                               status |-> "KeyError", fh |-> 0]
                    /\ UNCHANGED <<fd_open_count, files, tasks, held>>
       ELSE IF creat
       THEN /\ ret' = [op |-> "open", inode |-> inode, creat |-> creat,
                       status |-> "AssertionError", fh |-> 0]
            /\ UNCHANGED <<fd_open_count, files, tasks, held>>
       ELSE IF inode \notin DOMAIN inode_to_file_map
       THEN /\ ret' = [op |-> "open", inode |-> inode, creat |-> creat,
                       status |-> "KeyError", fh |-> 0]
            /\ UNCHANGED <<fd_open_count, files, tasks, held>>
       ELSE /\ BagCardinality(tasks) < MaxTasks
            /\ \E fd \in FreeFds :
                 /\ files' = Put(files, fd, [data |-> << >>, pos |-> 0])
                 /\ tasks' = tasks (+) SetToBag({[op |-> "open", inode |-> inode, fd |-> fd,
                                 uri |-> full_path(objs, inode_to_file_map[inode])]})
            /\ UNCHANGED <<fd_open_count, held, ret>>

\* One round of `async for chunk in response.aiter_bytes(): fd.write(chunk)`,
\* a chunk being one byte.
open_chunk(t) ==
    /\ t.op = "open"
    /\ Len(files[t.fd].data) < Len(Content(t.uri))
    /\ files' = [files EXCEPT ![t.fd] =
                   [data |-> Append(@.data, Content(t.uri)[Len(@.data) + 1]),
                    pos |-> @.pos + 1]]
    /\ UNCHANGED <<treeVars, cacheVars, tasks, held, ret>>

open_fail_registered(t) ==
    /\ t.op = "open"
    /\ files' = files
    /\ inode_to_tmpfile_map' = Put(inode_to_tmpfile_map, t.inode, t.fd)
    /\ fd_inode_map' = Put(fd_inode_map, t.fd, t.inode)
    /\ fd_open_count' = Put(fd_open_count, t.fd, 1)
    /\ tasks' = tasks (-) SetToBag({t})
    /\ ret' = [op |-> "open", inode |-> t.inode, creat |-> FALSE,
               status |-> "IOError", fh |-> 0]
    /\ UNCHANGED <<treeVars, held>>

\* The download raises: the exception leaves open, and the temporary file,
\* referenced by the coroutine alone, is closed with it.
open_fail(t) ==
    /\ t.op = "open"
    /\ files' = Del(files, t.fd)
    /\ tasks' = tasks (-) SetToBag({t})
    /\ ret' = [op |-> "open", inode |-> t.inode, creat |-> FALSE,
               status |-> "IOError", fh |-> 0]
    /\ UNCHANGED <<treeVars, cacheVars, held>>

\* The temporary files left open once inode's slot holds fd: a file the slot
\* held before loses its last reference and is closed.
Rebind(inode, fd) ==
    IF inode \in DOMAIN inode_to_tmpfile_map /\ inode_to_tmpfile_map[inode] # fd
    THEN Del(files, inode_to_tmpfile_map[inode])
    ELSE files

\* open from the end of the download (lines 183-187): rewind, register the
\* file under the inode and its descriptor under count 1, return the handle.
open_finish(t) ==
    /\ t.op = "open"
    /\ Len(files[t.fd].data) = Len(Content(t.uri))
    /\ files' = [Rebind(t.inode, t.fd) EXCEPT ![t.fd].pos = 0]
    /\ inode_to_tmpfile_map' = Put(inode_to_tmpfile_map, t.inode, t.fd)
    /\ fd_inode_map' = Put(fd_inode_map, t.fd, t.inode)
    /\ fd_open_count' = Put(fd_open_count, t.fd, 1)
    /\ tasks' = tasks (-) SetToBag({t})
    /\ held' = Hold(t.fd)
    /\ ret' = [op |-> "open", inode |-> t.inode, creat |-> FALSE,
               status |-> "ok", fh |-> t.fd]
    /\ UNCHANGED treeVars

lseek_cur(f, offset) == [f EXCEPT !.pos = @ + offset]

\* os.lseek(fd, offset, SEEK_SET): the position a read starts from
lseek(f, offset) == [f EXCEPT !.pos = offset]

\* os.read(fd, length): the bytes from the file position on, at most length
\* of them, none at or past the end
os_read(f, length) ==
    SubSeq(f.data, f.pos + 1, Min(f.pos + length, Len(f.data)))

\* HttpFs.read: a descriptor the process has not open gives OSError (EBADF)
read(fd, offset, length) ==
    /\ held[fd] > 0
    /\ UNCHANGED <<treeVars, cacheVars, tasks, held>>
    /\ IF fd \notin DOMAIN files
       THEN /\ ret' = [op |-> "read", fd |-> fd, offset |-> offset, length |-> length,
                       status |-> "OSError", data |-> << >>]
            /\ UNCHANGED files
       ELSE LET f == lseek(files[fd], offset)
                b == os_read(f, length)
            IN /\ files' = [files EXCEPT ![fd] = [f EXCEPT !.pos = @ + Len(b)]]
               /\ ret' = [op |-> "read", fd |-> fd, offset |-> offset, length |-> length,
                          status |-> "ok", data |-> b]

release_zero(fd) ==
    /\ held[fd] > 0
    /\ held' = [held EXCEPT ![fd] = @ - 1]
    /\ UNCHANGED <<treeVars, tasks>>
    /\ IF fd \notin DOMAIN fd_open_count
       THEN /\ ret' = [op |-> "release", fd |-> fd, status |-> "KeyError"]
            /\ UNCHANGED <<cacheVars, files>>
       ELSE IF fd_open_count[fd] > 0
       THEN /\ fd_open_count' = Decrement(fd_open_count, fd)
            /\ ret' = [op |-> "release", fd |-> fd, status |-> "ok"]
            /\ UNCHANGED <<inode_to_tmpfile_map, fd_inode_map, files>>
       ELSE /\ fd_open_count' = Del(fd_open_count, fd)
            /\ IF fd \notin DOMAIN fd_inode_map
                  \/ fd_inode_map[fd] \notin DOMAIN inode_to_tmpfile_map
               THEN /\ ret' = [op |-> "release", fd |-> fd, status |-> "KeyError"]
                    /\ UNCHANGED <<inode_to_tmpfile_map, fd_inode_map, files>>
               ELSE LET inode == fd_inode_map[fd]
                    IN /\ files' = Del(files, inode_to_tmpfile_map[inode])
                       /\ inode_to_tmpfile_map' = Del(inode_to_tmpfile_map, inode)
                       /\ fd_inode_map' = Del(fd_inode_map, fd)
                       /\ ret' = [op |-> "release", fd |-> fd, status |-> "ok"]

\* HttpFs.release.  Each subscript of a missing key raises KeyError and
\* leaves what the lines before it did.
release(fd) ==
    /\ held[fd] > 0
    /\ held' = [held EXCEPT ![fd] = @ - 1]
    /\ UNCHANGED <<treeVars, tasks>>
    /\ IF fd \notin DOMAIN fd_open_count
       THEN /\ ret' = [op |-> "release", fd |-> fd, status |-> "KeyError"]
            /\ UNCHANGED <<cacheVars, files>>
       ELSE IF fd_open_count[fd] > 1
       THEN /\ fd_open_count' = Decrement(fd_open_count, fd)
            /\ ret' = [op |-> "release", fd |-> fd, status |-> "ok"]
            /\ UNCHANGED <<inode_to_tmpfile_map, fd_inode_map, files>>
       ELSE /\ fd_open_count' = Del(fd_open_count, fd)
            /\ IF fd \notin DOMAIN fd_inode_map
                  \/ fd_inode_map[fd] \notin DOMAIN inode_to_tmpfile_map
               THEN /\ ret' = [op |-> "release", fd |-> fd, status |-> "KeyError"]
                    /\ UNCHANGED <<inode_to_tmpfile_map, fd_inode_map, files>>
               ELSE LET inode == fd_inode_map[fd]
                    IN /\ files' = Del(files, inode_to_tmpfile_map[inode])
                       /\ inode_to_tmpfile_map' = Del(inode_to_tmpfile_map, inode)
                       /\ fd_inode_map' = Del(fd_inode_map, fd)
                       /\ ret' = [op |-> "release", fd |-> fd, status |-> "ok"]

\* --------------------------------------------------------- specification

Init ==
    /\ objs = InitHeap.objs
    /\ lists = InitHeap.lists
    /\ inode_to_file_map = InitHeap.map
    /\ inode_to_tmpfile_map = << >>
    /\ fd_inode_map = << >>
    /\ fd_open_count = << >>
    /\ files = << >>
    /\ tasks = EmptyBag
    /\ held = [fd \in FD |-> 0]
    /\ ret = [op |-> "init", status |-> "ok"]

DirNext ==
    \/ \E inode \in Inodes : readdir(inode)
    \/ \E t \in Pending("readdir") : \E resp \in Responses(t.url) : readdir_resume(t, resp)
    \/ \E inode \in Inodes, name \in LookupNames : Lookup(inode, name)
    \/ \E inode \in Inodes : Getattr(inode)
    \/ \E op \in Unsupported : Reject(op)

FileNext ==
    \/ \E inode \in Inodes, creat \in BOOLEAN : open(inode, creat)
    \/ \E t \in Pending("open") : open_chunk(t)
    \/ \E t \in Pending("open") : open_fail(t)
    \/ \E t \in Pending("open") : open_finish(t)
    \/ \E fd \in FD : release(fd)

\* The cache with opens that do not overlap: an open is not called while
\* another is parked in its download.
SeqNext ==
    \/ \E inode \in Inodes, creat \in BOOLEAN : tasks = EmptyBag /\ open(inode, creat)
    \/ \E t \in Pending("open") : open_chunk(t)
    \/ \E t \in Pending("open") : open_fail(t)
    \/ \E t \in Pending("open") : open_finish(t)
    \/ \E fd \in FD, offset \in 0..MaxOff, length \in 0..MaxLen : read(fd, offset, length)
    \/ \E fd \in FD : release(fd)

Next == DirNext \/ FileNext \/ SeqNext

\* Every callback
Spec == Init /\ [][Next]_vars

\* The directory side: the callbacks that read or grow the tree
DirSpec == Init /\ [][DirNext]_vars

\* The open-file cache: the callbacks that read or change the cache
FileSpec == Init /\ [][FileNext]_vars

\* The open-file cache under a dispatcher that opens one file at a time
SeqSpec == Init /\ [][SeqNext]_vars

TypeOK ==
    /\ DOMAIN inode_to_file_map \subseteq Nat
    /\ \A i \in DOMAIN inode_to_file_map : inode_to_file_map[i] \in 1..Len(objs)
    /\ DOMAIN files \subseteq FD
    /\ BagCardinality(tasks) <= MaxTasks

\* ------------------------------------------------------------- properties

\* The attributes the listing record e stands for
EntryAttr(e) == getattr_(NewFile(e, NoParent, 0))

SameAttr(x, y) ==
    /\ x.st_ino = y.st_ino /\ x.st_mode = y.st_mode /\ x.st_size = y.st_size
    /\ x.st_uid = y.st_uid /\ x.st_gid = y.st_gid /\ x.st_nlink = y.st_nlink

ListingNames(path) == {Listing(path)[i].st_path : i \in 1..Len(Listing(path))}

ReadDirOk(r) == r.op = "readdir" /\ r.status = "ok"

\* A step on which a parked callback leaves `tasks`
Resumed == BagCardinality(tasks') < BagCardinality(tasks)

\* A step on which a callback is parked in network I/O
Parked == BagCardinality(tasks') > BagCardinality(tasks)

\* C1: when a read_directory(D) has completed successfully D is marked
\* loaded, whatever its listing holds, and a read_directory(D) called next
\* issues no listing fetch and leaves D's children as they are.
C1_ReadDirectoryLoadsOnce ==
    [][ /\ ReadDirOk(ret') => objs'[ret'.fobj].walked
        /\ ReadDirOk(ret) =>
             /\ ~(Parked /\ \E t \in BagToSet(tasks') :
                    /\ t.op = "readdir" /\ t.fobj = ret.fobj
                    /\ CopiesIn(t, tasks') > CopiesIn(t, tasks))
             /\ (ReadDirOk(ret') /\ ret'.fobj = ret.fobj /\ ~ret'.fetched
                   => lists'[objs'[ret.fobj].children] = lists[objs[ret.fobj].children])
      ]_vars

\* The cache entries of inode I: the handle ids registered for it
HandlesOf(I) == {h \in DOMAIN fd_inode_map : fd_inode_map[h] = I}

\* C2: when opens do not overlap, the opens of an inode that are not yet
\* released all hold one handle id, whose reference count is the number of
\* those opens (n opens less k releases); an inode with no such open, and a
\* handle id no open holds, has no entry in any of the three maps.
C2_ReleaseInvertsOpen ==
    /\ \A I \in Inodes :
         /\ Cardinality(HandlesOf(I)) <= 1
         /\ \A h \in HandlesOf(I) :
              /\ I \in DOMAIN inode_to_tmpfile_map
              /\ inode_to_tmpfile_map[I] = h
         /\ HandlesOf(I) = {} => I \notin DOMAIN inode_to_tmpfile_map
    /\ \A h \in FD :
         IF held[h] > 0
         THEN /\ h \in DOMAIN fd_open_count /\ fd_open_count[h] = held[h]
              /\ h \in DOMAIN fd_inode_map
         ELSE /\ h \notin DOMAIN fd_open_count
              /\ h \notin DOMAIN fd_inode_map
    /\ (ret.op = "open" /\ ret.status = "ok") => HandlesOf(ret.inode) = {ret.fh}

\* Opened twice, released once: one entry, reference count 1
C2_Witness ==
    /\ ret.op = "release" /\ ret.status = "ok"
    /\ ret.fd \in DOMAIN fd_open_count /\ fd_open_count[ret.fd] = 1
    /\ held[ret.fd] = 1

\* C3: no two different live handle ids refer to the same inode.
C3_OneHandlePerInode ==
    \A h1, h2 \in DOMAIN fd_open_count \cap DOMAIN fd_inode_map :
        fd_inode_map[h1] = fd_inode_map[h2] => h1 = h2

\* C4: a read_directory whose lazy load fails (network error, or a record
\* that does not parse) leaves the tree as it was: D not loaded, D's
\* children and the Inode Directory unchanged.
C4_FailedLoadAttachesNothing ==
    [][ (Resumed /\ ret'.op = "readdir" /\ ret'.status = "IOError")
          => UNCHANGED <<objs, lists, inode_to_file_map>> ]_vars

\* C5: an open whose download fails registers nothing at any of its steps
\* (parked in the download, a chunk written, the failure): the three maps
\* stay as they are, no handle goes to the dispatcher, the failure is what
\* the caller gets, and the temporary file is closed.
C5_FailedOpenRegistersNothing ==
    [][ /\ Parked => UNCHANGED <<cacheVars, held>>
        /\ (UNCHANGED tasks /\ DOMAIN files' = DOMAIN files /\ files' # files)
             => UNCHANGED <<cacheVars, held>>
        /\ (Resumed /\ ret'.op = "open" /\ ret'.status # "ok")
             => /\ UNCHANGED <<cacheVars, held>>
                /\ ret'.status = "IOError"
                /\ \E t \in BagToSet(tasks) :
                     /\ CopiesIn(t, tasks') < CopiesIn(t, tasks)
                     /\ t.fd \notin DOMAIN files'
      ]_vars

\* An open has failed in its download while another file is cached
C5_Witness ==
    /\ ret.op = "open" /\ ret.status = "IOError"
    /\ DOMAIN inode_to_tmpfile_map # {}

MutatingOps ==
    {"unlink", "rmdir", "mkdir", "mknod", "create", "write", "setattr",
     "rename", "link", "symlink", "statfs"}

\* C6: each mutating operation answers EINVAL and leaves the Inode
\* Directory, every node's children and loaded fields, and the cache as
\* they are.
C6_MutatingOpsRejected ==
    [][ (ret'.op \in MutatingOps /\ UNCHANGED tasks)
          => /\ ret'.status = "EINVAL"
             /\ UNCHANGED <<treeVars, cacheVars, files, held>> ]_vars

\* A mutating call has been answered after directory d was loaded
C6_Witness ==
    /\ ret.op \in MutatingOps /\ ret.status = "EINVAL"
    /\ \E n \in 1..Len(objs) : objs[n].st_path = "b"

\* C7: an open with the create flag is rejected.
C7_CreateRejected ==
    (ret.op = "open" /\ ret.creat) => ret.status # "ok"

\* C8: a read on a live handle gives min(length, max(0, S - offset)) bytes,
\* the bytes of the cached content from offset on, S being the content's
\* size; the cached content is the content of the handle's inode.
C8_ReadSlice ==
    ret.op = "read" =>
        /\ ret.status = "ok"
        /\ ret.fd \in DOMAIN files /\ ret.fd \in DOMAIN fd_inode_map
        /\ LET data == files[ret.fd].data
               S == Len(data)
               n == Min(ret.length, Max(0, S - ret.offset))
           IN /\ Len(ret.data) = n
              /\ \A i \in 1..n : ret.data[i] = data[ret.offset + i]
              /\ data = Content(full_path(objs, inode_to_file_map[fd_inode_map[ret.fd]]))

\* A read from the middle of a 2-byte file that stops at its end
C8_Witness ==
    /\ ret.op = "read" /\ ret.status = "ok"
    /\ ret.offset = 1 /\ ret.length = 3 /\ ret.data = <<2>>

\* C9: after a successful read_directory(D), lookup(D, name) gives the
\* attributes of the entry for every name of D's listing, and not-found for
\* every other literal name.
C9_LookupAfterRead ==
    ReadDirOk(ret) =>
        LET path == full_path(objs, ret.fobj)
        IN /\ \A i \in 1..Len(Listing(path)) :
                LET r == lookup(ret.inode, Listing(path)[i].st_path)
                IN r.status = "ok" /\ SameAttr(r.attr, EntryAttr(Listing(path)[i]))
           /\ \A name \in Names \ ({".", ".."} \cup ListingNames(path)) :
                lookup(ret.inode, name).status = "ENOENT"

\* C10: a lookup or get_attributes call gives attributes of a registered
\* node or fails with ENOENT, and fails with ENOENT when it names an inode
\* that is not registered.
C10_NotFoundOnly ==
    ret.op \in {"lookup", "getattr"} =>
        /\ ret.status \in {"ok", "ENOENT"}
        /\ ret.inode \notin DOMAIN inode_to_file_map => ret.status = "ENOENT"

\* The File objects built from listing records (every object but the root)
RemoteEntries == 2..Len(objs)

\* C11: two remote entries whose (device, remote inode) pairs differ, both
\* with a device id of 1 or more, have different synthetic inodes.
C11_SyntheticInodesDistinct ==
    \A n, m \in RemoteEntries :
        ( /\ objs[n].st_dev >= 1 /\ objs[m].st_dev >= 1
          /\ <<objs[n].st_dev, objs[n].st_inode>> # <<objs[m].st_dev, objs[m].st_inode>> )
            => l_inode(objs[n]) # l_inode(objs[m])

\* What identifies a tree node: its name, its parent and its metadata
NodeIdentity(o) ==
    <<o.st_path, o.parent, o.st_dev, o.st_inode, o.st_mode, o.st_nlink,
      o.st_uid, o.st_gid, o.st_size>>

\* C12: an inode number registered in the Inode Directory stays registered
\* and keeps mapping to the same tree node (name, parent, metadata) on every
\* step, and the root inode maps to the root node.
C12_RegistrationsStable ==
    [][ /\ \A i \in DOMAIN inode_to_file_map :
             /\ i \in DOMAIN inode_to_file_map'
             /\ NodeIdentity(objs'[inode_to_file_map'[i]])
                  = NodeIdentity(objs[inode_to_file_map[i]])
        /\ inode_to_file_map'[ROOT_INODE] = 1
      ]_vars

\* The reply-buffer capacities of the dispatcher
Caps == 1..MaxCap

\* What a reply of read_directory(D, off) is to hold: non-decreasing
\* inode order, inodes past off, no '.' or '..', children of D only.
WellFormedReply(h, fobj, es, off) ==
    /\ \A i, j \in 1..Len(es) : i < j => es[i].ino <= es[j].ino
    /\ \A i \in 1..Len(es) :
         /\ es[i].ino > off
         /\ es[i].name \notin {".", ".."}
         /\ \E k \in 1..Len(h.lists[h.objs[fobj].children]) :
              /\ h.lists[h.objs[fobj].children][k] = es[i].obj
              /\ basename(h.objs[es[i].obj]) = es[i].name
              /\ l_inode(h.objs[es[i].obj]) = es[i].ino

\* C13: a read_directory(D, off) that replies delivers, for every off and
\* every buffer capacity, entries in non-decreasing inode order, none with
\* an inode <= off, none named '.' or '..', all of them children of D with
\* names of D's listing; the same holds of a D whose listing also held a
\* record named '.' or '..'.
C13_ReplyOrderedPastOffset ==
    ReadDirOk(ret) =>
        \A off \in Inodes, cap \in Caps :
            /\ WellFormedReply(Heap, ret.fobj,
                               Delivered(Entries(Heap, ret.fobj), off, cap), off)
            /\ \A i \in 1..Len(Delivered(Entries(Heap, ret.fobj), off, cap)) :
                 Delivered(Entries(Heap, ret.fobj), off, cap)[i].name
                     \in ListingNames(full_path(objs, ret.fobj))
            /\ \A dot \in {".", ".."} :
                 LET h == LoadOne(Heap, ret.fobj, Wire(dot, 1, 4, DirMode, 2, 4096))
                 IN WellFormedReply(h, ret.fobj,
                                    Delivered(Entries(h, ret.fobj), off, cap), off)

\* The root was read: a reply from offset 3 into a buffer of 2 skips d, a
\* and l and delivers e then f
C13_Witness ==
    /\ ReadDirOk(ret) /\ ret.inode = ROOT_INODE
    /\ LET es == Delivered(Entries(Heap, ret.fobj), 3, 2)
       IN Len(es) = 2 /\ es[1].name = "e" /\ es[2].name = "f"
    /\ Len(Delivered(Entries(Heap, ret.fobj), 0, 1)) = 1

\* The entries a dispatcher collects from a directory with entries es when it
\* calls readdir from offset off and resumes from the inode of the last
\* entry delivered until a call delivers nothing.
RECURSIVE ResumeFrom(_, _, _)
ResumeFrom(es, off, cap) ==
    LET d == Delivered(es, off, cap)
    IN IF d = << >> THEN << >>
       ELSE d \o ResumeFrom(es, d[Len(d)].ino, cap)

\* C14: for a loaded directory and every buffer capacity, reading from
\* offset 0 and resuming from the last delivered inode until nothing is
\* delivered delivers every child exactly once, children that share an
\* inode number included.
C14_ResumeDeliversEveryChild ==
    ReadDirOk(ret) =>
        \A cap \in Caps :
            LET es  == Entries(Heap, ret.fobj)
                got == ResumeFrom(es, 0, cap)
            IN \A k \in 1..Len(es) :
                 Cardinality({i \in 1..Len(got) : got[i].obj = es[k].obj}) = 1

\* The children list kids holds the listing of path, each record once
ListingOnce(kids, path) ==
    /\ Len(kids) = Len(Listing(path))
    /\ \A i \in 1..Len(kids) : basename(objs[kids[i]]) = Listing(path)[i].st_path

\* A readdir that got as far as computing a reply from fobj's children
Replied(r) == r.op = "readdir" /\ r.status \in {"ok", "TypeError"}

\* C15: under every interleaving of read_directory callbacks each
\* read_directory(D) computes its reply from children that are either none
\* (before the load) or D's remote listing with each entry once, and no
\* directory holds a listing attached twice (two children of one name).
C15_ListingAttachedOnce ==
    /\ Replied(ret) =>
         \/ lists[objs[ret.fobj].children] = << >>
         \/ ListingOnce(lists[objs[ret.fobj].children], full_path(objs, ret.fobj))
    /\ \A n \in 1..Len(objs) :
         \A i, j \in 1..Len(lists[objs[n].children]) :
             i # j => basename(objs[lists[objs[n].children][i]])
                        # basename(objs[lists[objs[n].children][j]])

\* A step on which a lookup call returned (a lookup that repeats the last
\* answer and changes nothing is a stuttering step)
LookupStep == ret'.op = "lookup" /\ ret' # ret

\* C16: a lookup(p, name) call parks no listing fetch and leaves the Inode
\* Directory and every node's children and loaded fields as they are; on a
\* registered node that was not read, lookup of a literal name answers
\* ENOENT, also for a name the remote directory holds.
C16_LookupLoadsNothing ==
    [][ LookupStep =>
          /\ UNCHANGED <<objs, lists, inode_to_file_map, tasks>>
          /\ ( /\ ret'.name \notin {".", ".."}
               /\ ret'.inode \in DOMAIN inode_to_file_map
               /\ ~objs[inode_to_file_map[ret'.inode]].walked )
               => /\ ret'.status = "ENOENT"
                  /\ ~objs'[inode_to_file_map'[ret'.inode]].walked
      ]_vars

\* lookup(d, "b") was answered ENOENT while /d, which holds b on the
\* remote, is not loaded
C16_Witness ==
    /\ ret.op = "lookup" /\ ret.inode = 2 /\ ret.name = "b" /\ ret.status = "ENOENT"
    /\ ~objs[inode_to_file_map[2]].walked
    /\ full_path(objs, inode_to_file_map[2]) = "/d"
    /\ "b" \in ListingNames("/d")

\* C17: under every interleaving of open and release callbacks every handle
\* id with a reference-count entry has a count of 1 or more; no release
\* leaves a count of zero or below in the map.
C17_CountsPositive ==
    \A h \in DOMAIN fd_open_count : fd_open_count[h] >= 1

\* A release took a count from 2 to 1 and left the entry, and another open
\* is parked in its download
C17_Witness ==
    /\ ret.op = "release" /\ ret.status = "ok"
    /\ ret.fd \in DOMAIN fd_open_count /\ fd_open_count[ret.fd] = 1
    /\ Pending("open") # {}

\* C18: a handle id that open returned and that is still owed a release is
\* backed by open storage holding the content of its inode, and the release
\* of a handle that is owed one does not fail.
C18_HeldHandlesBacked ==
    /\ \A h \in FD :
         held[h] > 0 =>
            /\ h \in DOMAIN files
            /\ h \in DOMAIN fd_inode_map
            /\ fd_inode_map[h] \in DOMAIN inode_to_file_map
            /\ files[h].data
                 = Content(full_path(objs, inode_to_file_map[fd_inode_map[h]]))
    /\ ret.op = "release" => ret.status = "ok"

\* The path of a node named name under the directory of path dir
JoinPath(dir, name) == (IF dir = "/" THEN dir ELSE dir \o "/") \o name

\* C19: every element c of the children of a node d (a loaded directory, or
\* a node under the root) is the node registered in the Inode Directory
\* under c's synthetic inode, has d as its parent, and has as full path d's
\* full path joined with its name by '/'.
C19_AttachedNodeIsRegistered ==
    \A d \in 1..Len(objs) :
        \A i \in 1..Len(lists[objs[d].children]) :
            LET c == lists[objs[d].children][i]
            IN /\ l_inode(objs[c]) \in DOMAIN inode_to_file_map
               /\ inode_to_file_map[l_inode(objs[c])] = c
               /\ objs[c].parent = d
               /\ full_path(objs, c) = JoinPath(full_path(objs, d), basename(objs[c]))

====
